---- MODULE Spec2Model ----
(***************************************************************************)
(* Hours tracker: the calendar / period resolver (utils/date.js), the      *)
(* overtime calculator and rollup aggregator (utils/reports.js) and the    *)
(* period navigation of the reports page (reports.js).                     *)
(*                                                                         *)
(* A JavaScript Date is modelled as the number of local-time hours since   *)
(* 1970-01-01T00:00 local time.  The host time zone is the variable        *)
(* tzOffset (hours east of UTC); it is assumed to have no daylight-saving  *)
(* transition, so a difference of two Dates in milliseconds is the         *)
(* difference of their local times.                                        *)
(* A "YYYY-MM-DD" string is modelled as the tuple <<year, month, day>>     *)
(* with month in 1..12, "YYYY-MM" as <<year, month>>, "YYYY" as <<year>>.  *)
(***************************************************************************)
EXTENDS Integers, Sequences, FiniteSets, TLC

VARIABLES
  tzOffset,        \* host time zone, hours east of UTC
  periodType,      \* argument periodType of the period functions
  referenceDate,   \* argument referenceDate / date of the period functions
  datePc,          \* which period function has been applied to the inputs
  monday,          \* result of getMonday(referenceDate)
  weekId,          \* result of getWeekId(referenceDate)
  periodId,        \* result of getPeriodId(periodType, referenceDate)
  periodDates,     \* result of getPeriodDates(periodType, referenceDate)
  prevPeriodDate,  \* result of navigatePeriod(periodType, referenceDate, -1)
  prevPeriodId,    \* getPeriodId(periodType, prevPeriodDate)
  prevPeriodDates, \* getPeriodDates(periodType, prevPeriodDate)
  entries,         \* argument entries of calculateRollup
  periodStart,     \* argument periodStart of calculateRollup
  periodEnd,       \* argument periodEnd of calculateRollup
  rollup,          \* result of the latest calculateRollup call
  calls,           \* number of calculateRollup calls made on these inputs
  clock,           \* the wall clock read by new Date()
  weekEntries,     \* argument of calculateWeeklyEarningsWithOvertime
  weekCalc,        \* its result
  weekPc,          \* whether the overtime calculator has been applied
  byWeek,          \* result of aggregateByWeek(rollup.entries)
  byMonth,         \* result of aggregateByMonth(rollup.entries)
  chartPc,         \* whether the chart aggregators have been applied
  currentRollup,   \* argument currentRollup of calculateComparison
  previousRollup,  \* argument previousRollup of calculateComparison
  comparison,      \* result of calculateComparison
  cmpPc,           \* whether calculateComparison has been applied
  currentWeekStart,   \* app.js: the date whose week the tracker shows
  currentHourlyRate,  \* app.js: the configured hourly rate
  saveTimeout,        \* app.js: the pending auto-save timer, if any
  renderedWeek,       \* the Monday of the week whose rows the table holds
  shownWeekEntries,   \* app.js: weekEntries, the entries last loaded for display
  loads,              \* the loadWeek calls awaiting the store
  storeEntries,       \* the store: entry documents under weeks/<weekId>/entries
  storeRollups,       \* the store: documents of earnings-rollups
  storeRate,          \* the store: hourlyRate of settings/config
  saves,              \* the saveEntry calls made, with their progress
  rateSave,           \* the saveHourlyRate call awaiting the store, if any
  navClicks,          \* number of previous/next week clicks made
  rateClicks          \* number of saveHourlyRate calls made

dateVars == <<tzOffset, periodType, referenceDate, datePc, monday, weekId,
              periodId, periodDates, prevPeriodDate, prevPeriodId,
              prevPeriodDates>>

calcVars == <<entries, periodStart, periodEnd, rollup, calls, clock>>

weekVars == <<weekEntries, weekCalc, weekPc>>

chartVars == <<byWeek, byMonth, chartPc>>

cmpVars == <<currentRollup, previousRollup, comparison, cmpPc>>

appVars == <<currentWeekStart, currentHourlyRate, saveTimeout, renderedWeek,
             shownWeekEntries, loads, storeEntries, storeRollups, storeRate,
             saves, rateSave, navClicks, rateClicks>>

vars == <<dateVars, calcVars, weekVars, chartVars, cmpVars, appVars>>

----------------------------------------------------------------------------
(* The platform's Date object                                              *)

HoursPerDay == 24

DayOf(t) == t \div HoursPerDay
HourOf(t) == t % HoursPerDay

\* Days since 1970-01-01 of the proleptic Gregorian date y-m-d (m in 1..12).
\* The year is counted from 1 March (yy), split into 400-year eras.
DaysOfEra(era, yoe, doy) ==
  era * 146097 + (yoe * 365 + yoe \div 4 - yoe \div 100 + doy) - 719468

DaysFromMarchYear(yy, mp, d) ==
  DaysOfEra(yy \div 400, yy % 400, (153 * mp + 2) \div 5 + d - 1)

DaysFromCivil(y, m, d) ==
  DaysFromMarchYear(IF m <= 2 THEN y - 1 ELSE y, IF m > 2 THEN m - 3 ELSE m + 9, d)

\* The Gregorian date of day number z; month is 0-based as in getMonth().
CivilOfMonth(y0, d, m) ==
  [year |-> y0 + (IF m <= 2 THEN 1 ELSE 0), month |-> m - 1, date |-> d]

CivilOfMarchMonth(y0, doy, mp) ==
  CivilOfMonth(y0, doy - (153 * mp + 2) \div 5 + 1, IF mp < 10 THEN mp + 3 ELSE mp - 9)

CivilOfYearDay(y0, doy) == CivilOfMarchMonth(y0, doy, (5 * doy + 2) \div 153)

CivilOfEraYear(era, doe, yoe) ==
  CivilOfYearDay(yoe + era * 400, doe - (365 * yoe + yoe \div 4 - yoe \div 100))

CivilOfEraDay(era, doe) ==
  CivilOfEraYear(era, doe,
                 (doe - doe \div 1460 + doe \div 36524 - doe \div 146096) \div 365)

CivilOfShifted(zz) == CivilOfEraDay(zz \div 146097, zz % 146097)

CivilFromDays(z) == CivilOfShifted(z + 719468)

getFullYear(t) == CivilFromDays(DayOf(t)).year
getMonth(t) == CivilFromDays(DayOf(t)).month
getDate(t) == CivilFromDays(DayOf(t)).date

\* 0 = Sunday .. 6 = Saturday; 1970-01-01 was a Thursday.
getDay(t) == (DayOf(t) + 4) % 7

\* new Date(year, monthIndex, day): local midnight; a monthIndex outside
\* 0..11 and a day outside the month roll over into the neighbouring ones.
NewDate(y, m0, d) ==
  (DaysFromCivil(y + (m0 \div 12), (m0 % 12) + 1, 1) + d - 1) * HoursPerDay

\* date.setDate(n): same month and time of day, day of month n (rolls over).
setDate(t, n) == NewDate(getFullYear(t), getMonth(t), n) + HourOf(t)

\* date.setMonth(m): same year, day of month and time of day (rolls over).
setMonth(t, m0) == NewDate(getFullYear(t), m0, getDate(t)) + HourOf(t)

\* date.setFullYear(y): same month, day of month and time of day.
setFullYear(t, y) == NewDate(y, getMonth(t), getDate(t)) + HourOf(t)

\* const d = date; the changes made to d are made to the caller's Date.
AliasedDate(date, changed) == changed

\* const d = new Date(date) (getMonday line 9, addWeeks line 84, getDateRange
\* line 217, normalizeDate of calculateRollup): the setters act on the copy
\* (which becomes changed) and the caller's Date keeps its value.
CopiedDate(date, changed) == date

\* date.setHours(0, 0, 0, 0)
normalizeDate(t) == t - HourOf(t)

\* new Date("YYYY-MM-DD"): a date-only ISO string is midnight UTC, which is
\* tzOffset hours after local midnight of that day.
ParseIsoDate(s) == DaysFromCivil(s[1], s[2], s[3]) * HoursPerDay + tzOffset

----------------------------------------------------------------------------
(* utils/date.js                                                           *)

\* getMonday without the special case for Sunday (day 0).
getMondayNoSundayCase(date) ==
  LET day  == getDay(date)
      diff == getDate(date) - day + 1
  IN  setDate(date, diff)

getMonday(date) ==
  LET day  == getDay(date)
      diff == getDate(date) - day + (IF day = 0 THEN -6 ELSE 1)
  IN  setDate(date, diff)

getSunday(date) ==
  LET m == getMonday(date) IN setDate(m, getDate(m) + 6)

getWeekDates(referenceDate_) ==
  LET m == getMonday(referenceDate_)
  IN  [i \in 1..7 |-> setDate(m, getDate(m) + (i - 1))]

formatDate(date) == <<getFullYear(date), getMonth(date) + 1, getDate(date)>>

WeekdayNames ==
  <<"Sunday", "Monday", "Tuesday", "Wednesday", "Thursday", "Friday", "Saturday">>

getWeekdayName(date) == WeekdayNames[getDay(date) + 1]

addWeeks(date, weeks) == setDate(date, getDate(date) + weeks * 7)

getWeekId(date) == formatDate(getMonday(date))

\* getBiweekId from the Monday of the date's week (monday) and the Monday of
\* the week containing the 1st of that Monday's month (firstMonday).
BiweekIdFromAnchor(mon, firstMonday) ==
  LET daysDiff     == (mon - firstMonday) \div HoursPerDay
      biweekOffset == (daysDiff \div 14) * 14
      biweekStart  == setDate(firstMonday, getDate(firstMonday) + biweekOffset)
  IN  formatDate(biweekStart)

BiweekIdFromMonday(mon) ==
  LET firstOfMonth == NewDate(getFullYear(mon), getMonth(mon), 1)
  IN  BiweekIdFromAnchor(mon, getMonday(firstOfMonth))

getBiweekId(date) == BiweekIdFromMonday(getMonday(date))

getMonthId(date) == <<getFullYear(date), getMonth(date) + 1>>

getYearId(date) == <<getFullYear(date)>>

BiweekDatesFrom(start) ==
  [start |-> start, end |-> setDate(start, getDate(start) + 13)]

getBiweekDates(date) == BiweekDatesFrom(ParseIsoDate(getBiweekId(date)))

\* getMonthDates ending on day 1 of the next month instead of day 0.
getMonthDatesEndDayOne(date) ==
  [start |-> NewDate(getFullYear(date), getMonth(date), 1),
   end   |-> NewDate(getFullYear(date), getMonth(date) + 1, 1)]

getMonthDates(date) ==
  [start |-> NewDate(getFullYear(date), getMonth(date), 1),
   end   |-> NewDate(getFullYear(date), getMonth(date) + 1, 0)]

getYearDates(date) ==
  [start |-> NewDate(getFullYear(date), 0, 1),
   end   |-> NewDate(getFullYear(date), 11, 31)]

addMonths(date, months) == setMonth(date, getMonth(date) + months)

addYears(date, years) == setFullYear(date, getFullYear(date) + years)

\* The loop pushes current and advances it by one calendar day (setDate of
\* getDate() + 1, i.e. HoursPerDay later) while current <= end.
DateRangeLength(start, end) ==
  IF start > end THEN 0 ELSE (end - start) \div HoursPerDay + 1

getDateRange(start, end) ==
  [i \in 1..DateRangeLength(start, end) |-> start + (i - 1) * HoursPerDay]

\* parseLocalDate("YYYY-MM-DD"): local midnight of that calendar day.
parseLocalDate(s) == NewDate(s[1], s[2] - 1, s[3])

----------------------------------------------------------------------------
(* utils/reports.js: period dispatch                                       *)

PeriodTypes == {"weekly", "biweekly", "monthly", "yearly"}

InvalidPeriodType == [error |-> "Invalid period type"]

\* getPeriodDates whose default case falls back to the week.
getPeriodDatesDefaultWeek(type, referenceDate_) ==
  CASE type = "biweekly" -> getBiweekDates(referenceDate_)
    [] type = "monthly" -> getMonthDates(referenceDate_)
    [] type = "yearly" -> getYearDates(referenceDate_)
    [] OTHER -> [start |-> getWeekDates(referenceDate_)[1],
                 end   |-> getWeekDates(referenceDate_)[7]]

getPeriodDates(type, referenceDate_) ==
  CASE type = "weekly" ->
         LET dates == getWeekDates(referenceDate_)
         IN  [start |-> dates[1], end |-> dates[7]]
    [] type = "biweekly" -> getBiweekDates(referenceDate_)
    [] type = "monthly" -> getMonthDates(referenceDate_)
    [] type = "yearly" -> getYearDates(referenceDate_)
    [] OTHER -> InvalidPeriodType

getPeriodId(type, referenceDate_) ==
  CASE type = "weekly" -> getWeekId(referenceDate_)
    [] type = "biweekly" -> getBiweekId(referenceDate_)
    [] type = "monthly" -> getMonthId(referenceDate_)
    [] type = "yearly" -> getYearId(referenceDate_)
    [] OTHER -> InvalidPeriodType

(* reports.js: navigation to the previous / next period                    *)
navigatePeriod(type, currentDate, direction) ==
  CASE type = "weekly" -> addWeeks(currentDate, direction)
    [] type = "biweekly" -> addWeeks(currentDate, direction * 2)
    [] type = "monthly" -> addMonths(currentDate, direction)
    [] type = "yearly" -> addYears(currentDate, direction)
    [] OTHER -> currentDate

----------------------------------------------------------------------------
(* utils/reports.js: overtime calculator and rollup aggregator             *)
(*                                                                         *)
(* Numbers are fixed-point: entry.hours in thousandths of an hour,         *)
(* entry.hourlyRate in cents; unrounded earnings in units of 1/2000 cent   *)
(* (thousandths of an hour x cents x 2, so that the factor 1.5 is 3).      *)
(* x.toFixed(2) rounds to hundredths, half up: results are in hundredths   *)
(* of an hour and in cents.                                                *)
(* Numbers are non-negative.  A field that holds no number is modelled by  *)
(* a negative integer: Missing (the field is absent, undefined), Null, and *)
(* NonNumeric (a non-empty string that is not a number, such as "abc");    *)
(* NaN is the not-a-number result of arithmetic on such a value.           *)

Missing == -1
Null == -2
NonNumeric == -3
NaN == -4

IsNumber(x) == x >= 0

\* ToNumber, as applied to an operand of * : null is 0, undefined and a
\* non-numeric string are NaN.
ToNumber(x) == IF x = Null THEN 0 ELSE IF IsNumber(x) THEN x ELSE NaN

\* parseFloat(x) || 0
ParseFloatOrZero(x) == IF IsNumber(x) THEN x ELSE 0

\* The truthiness of a field: a nonzero number or a non-empty string.
Truthy(x) == x > 0 \/ x = NonNumeric

\* a * b and a + b, where NaN is contagious.
Times(a, b) ==
  IF ToNumber(a) = NaN \/ ToNumber(b) = NaN THEN NaN ELSE ToNumber(a) * ToNumber(b)

Plus(a, b) == IF a = NaN \/ b = NaN THEN NaN ELSE a + b

\* parseFloat(x.toFixed(2)) for x >= 0 given in units of 1/scale hundredth;
\* NaN.toFixed(2) is "NaN".
ToFixed2(x, scale) == IF x = NaN THEN NaN ELSE (2 * x + scale) \div (2 * scale)

\* weekEntries.reduce((sum, entry) => sum + (parseFloat(entry.hours) || 0), 0)
RECURSIVE SumHours(_)
SumHours(es) ==
  IF es = <<>> THEN 0 ELSE ParseFloatOrZero(es[1].hours) + SumHours(Tail(es))

\* The hourly rate of the last entry with a nonzero rate instead of the first.
RECURSIVE FindLastHourlyRate(_)
FindLastHourlyRate(es) ==
  IF es = <<>> THEN 0
  ELSE IF Truthy(es[Len(es)].hourlyRate) THEN es[Len(es)].hourlyRate
  ELSE FindLastHourlyRate(SubSeq(es, 1, Len(es) - 1))

\* weekEntries.find(e => e.hourlyRate)?.hourlyRate || 0
RECURSIVE FindHourlyRate(_)
FindHourlyRate(es) ==
  IF es = <<>> THEN 0
  ELSE IF Truthy(es[1].hourlyRate) THEN es[1].hourlyRate
  ELSE FindHourlyRate(Tail(es))

\* The split that forgets to cap the regular hours at the threshold.
OvertimeSplitUncapped(totalHours, hourlyRate) ==
  IF totalHours <= 40 * 1000
    THEN [regularHours |-> totalHours, overtimeHours |-> 0,
          regularEarnings |-> Times(2 * totalHours, hourlyRate),
          overtimeEarnings |-> 0]
    ELSE [regularHours |-> totalHours, overtimeHours |-> totalHours - 40 * 1000,
          regularEarnings |-> Times(2 * totalHours, hourlyRate),
          overtimeEarnings |-> Times(3 * (totalHours - 40 * 1000), hourlyRate)]

\* Lines 313-328: regular and overtime hours and their unrounded earnings.
OvertimeSplit(totalHours, hourlyRate) ==
  IF totalHours <= 40 * 1000
    THEN [regularHours |-> totalHours, overtimeHours |-> 0,
          regularEarnings |-> Times(2 * totalHours, hourlyRate),
          overtimeEarnings |-> 0]
    ELSE [regularHours |-> 40 * 1000, overtimeHours |-> totalHours - 40 * 1000,
          regularEarnings |-> Times(2 * 40 * 1000, hourlyRate),
          overtimeEarnings |-> Times(3 * (totalHours - 40 * 1000), hourlyRate)]

\* Lines 330-336: every field rounded to 2 decimals.
RoundedWeek(w) ==
  [regularHours     |-> ToFixed2(w.regularHours, 10),
   overtimeHours    |-> ToFixed2(w.overtimeHours, 10),
   regularEarnings  |-> ToFixed2(w.regularEarnings, 2000),
   overtimeEarnings |-> ToFixed2(w.overtimeEarnings, 2000),
   totalEarnings    |-> ToFixed2(Plus(w.regularEarnings, w.overtimeEarnings), 2000)]

calculateWeeklyEarningsWithOvertime(weekEntries_) ==
  RoundedWeek(OvertimeSplit(SumHours(weekEntries_), FindHourlyRate(weekEntries_)))

\* The filter that leaves out the entries of the period's last day.
FilterPeriodOpenEnd(es, start, end) ==
  SelectSeq(es, LAMBDA e : parseLocalDate(e.date) >= start /\ parseLocalDate(e.date) < end)

\* entries.filter(entry => entryDate >= start && entryDate <= end)
FilterPeriod(es, start, end) ==
  SelectSeq(es, LAMBDA e : parseLocalDate(e.date) >= start /\ parseLocalDate(e.date) <= end)

EntryWeekId(e) == getWeekId(parseLocalDate(e.date))

\* The keys of entriesByWeek, in the order in which forEach creates them.
RECURSIVE WeekIdsOf(_)
WeekIdsOf(es) ==
  IF es = <<>> THEN <<>>
  ELSE <<EntryWeekId(es[1])>> \o
       WeekIdsOf(SelectSeq(Tail(es), LAMBDA e : EntryWeekId(e) # EntryWeekId(es[1])))

\* entriesByWeek[weekId]: the period entries of one week, in input order.
EntriesOfWeek(es, id) == SelectSeq(es, LAMBDA e : EntryWeekId(e) = id)

NoWeek ==
  [regularHours |-> 0, overtimeHours |-> 0, regularEarnings |-> 0,
   overtimeEarnings |-> 0, totalEarnings |-> 0]

AddWeek(total, weekCalc_) ==
  [regularHours     |-> total.regularHours + weekCalc_.regularHours,
   overtimeHours    |-> total.overtimeHours + weekCalc_.overtimeHours,
   regularEarnings  |-> Plus(total.regularEarnings, weekCalc_.regularEarnings),
   overtimeEarnings |-> Plus(total.overtimeEarnings, weekCalc_.overtimeEarnings),
   totalEarnings    |-> Plus(total.totalEarnings, weekCalc_.totalEarnings)]

\* The overtime calculator applied once to all period entries, not per week.
SumWeeksAsOnePeriod(ids, es) ==
  IF ids = <<>> THEN NoWeek ELSE calculateWeeklyEarningsWithOvertime(es)

\* Object.values(entriesByWeek).forEach(weekEntries => ... += weekCalc ...)
RECURSIVE SumWeeks(_, _)
SumWeeks(ids, es) ==
  IF ids = <<>> THEN NoWeek
  ELSE AddWeek(SumWeeks(SubSeq(ids, 1, Len(ids) - 1), es),
               calculateWeeklyEarningsWithOvertime(EntriesOfWeek(es, ids[Len(ids)])))

\* The count of all period entries, with or without hours.
DaysWorkedAllEntries(es) == Len(es)

\* periodEntries.filter(e => (e.hours || 0) > 0).length; a value that is not
\* a number is not > 0.
DaysWorked(es) == Len(SelectSeq(es, LAMBDA e : e.hours > 0))

\* parseFloat((n > 0 ? totalHours / n : 0).toFixed(2))
AverageHours(totalHours, n) ==
  IF n > 0 THEN ToFixed2(totalHours, 10 * n) ELSE 0

\* A rollup whose totalDays is counted up to the time of the call.
RollupRecordDaysToNow(periodEntries, totalHours, weeks, daysWorked, totalDays, periodStart_, periodEnd_, now) ==
  [periodStart |-> formatDate(periodStart_),
   periodEnd   |-> formatDate(periodEnd_),
   totalHours  |-> ToFixed2(totalHours, 10),
   regularHours     |-> weeks.regularHours,
   overtimeHours    |-> weeks.overtimeHours,
   totalEarnings    |-> weeks.totalEarnings,
   regularEarnings  |-> weeks.regularEarnings,
   overtimeEarnings |-> weeks.overtimeEarnings,
   daysWorked  |-> daysWorked,
   totalDays   |-> totalDays + now,
   averageHoursPerDay |-> AverageHours(totalHours, daysWorked),
   averageHoursPerDayIncludingNonWork |-> AverageHours(totalHours, totalDays),
   entries     |-> periodEntries,
   lastUpdated |-> now]

\* Lines 405-420: the returned record.  The week sums are sums of 2-decimal
\* numbers, on which toFixed(2) changes nothing.
RollupRecord(periodEntries, totalHours, weeks, daysWorked, totalDays, periodStart_, periodEnd_, now) ==
  [periodStart |-> formatDate(periodStart_),
   periodEnd   |-> formatDate(periodEnd_),
   totalHours  |-> ToFixed2(totalHours, 10),
   regularHours     |-> weeks.regularHours,
   overtimeHours    |-> weeks.overtimeHours,
   totalEarnings    |-> weeks.totalEarnings,
   regularEarnings  |-> weeks.regularEarnings,
   overtimeEarnings |-> weeks.overtimeEarnings,
   daysWorked  |-> daysWorked,
   totalDays   |-> totalDays,
   averageHoursPerDay |-> AverageHours(totalHours, daysWorked),
   averageHoursPerDayIncludingNonWork |-> AverageHours(totalHours, totalDays),
   entries     |-> periodEntries,
   lastUpdated |-> now]

\* Lines 365-403 on the filtered entries.
RollupOfPeriodEntries(periodEntries, periodStart_, periodEnd_, now) ==
  RollupRecord(periodEntries,
               SumHours(periodEntries),
               SumWeeks(WeekIdsOf(periodEntries), periodEntries),
               DaysWorked(periodEntries),
               Len(getDateRange(periodStart_, periodEnd_)),
               periodStart_, periodEnd_, now)

\* now is the value of new Date() at the call.
calculateRollup(entries_, periodStart_, periodEnd_, now) ==
  RollupOfPeriodEntries(
    FilterPeriod(entries_, normalizeDate(periodStart_), normalizeDate(periodEnd_)),
    periodStart_, periodEnd_, now)

(* Chart aggregators, lines 555-648                                        *)

\* a.localeCompare(b) < 0 on zero-padded ids: the tuples compared from the
\* left.
IdBefore(a, b) ==
  \E i \in 1..Len(a) : a[i] < b[i] /\ \A j \in 1..(i - 1) : a[j] = b[j]

\* The elements of a sequence without repetitions, in order of first
\* occurrence (the keys of an object filled in that order).
RECURSIVE DistinctIds(_)
DistinctIds(q) ==
  IF q = <<>> THEN <<>>
  ELSE <<q[1]>> \o DistinctIds(SelectSeq(Tail(q), LAMBDA x : x # q[1]))

\* Lines 574-582: the bucket of one week.
WeekBucketOf(id, totalHours, overtimeCalc) ==
  [weekId           |-> id,
   hours            |-> ToFixed2(totalHours, 10),
   earnings         |-> overtimeCalc.totalEarnings,
   regularHours     |-> overtimeCalc.regularHours,
   overtimeHours    |-> overtimeCalc.overtimeHours,
   regularEarnings  |-> overtimeCalc.regularEarnings,
   overtimeEarnings |-> overtimeCalc.overtimeEarnings]

\* Hours x rate summed entry by entry, without the overtime calculator.
RECURSIVE NaiveEarnings(_)
NaiveEarnings(es) ==
  IF es = <<>> THEN 0
  ELSE Plus(Times(2 * ParseFloatOrZero(es[1].hours), ParseFloatOrZero(es[1].hourlyRate)),
            NaiveEarnings(Tail(es)))

\* The bucket of a week priced entry by entry.
WeekBucketNaive(es, id) ==
  WeekBucketOf(id, SumHours(EntriesOfWeek(es, id)),
               [regularHours |-> ToFixed2(SumHours(EntriesOfWeek(es, id)), 10),
                overtimeHours |-> 0,
                regularEarnings |-> ToFixed2(NaiveEarnings(EntriesOfWeek(es, id)), 2000),
                overtimeEarnings |-> 0,
                totalEarnings |-> ToFixed2(NaiveEarnings(EntriesOfWeek(es, id)), 2000)])

\* Lines 570-583 for the week id.
WeekBucket(es, id) ==
  WeekBucketOf(id, SumHours(EntriesOfWeek(es, id)),
               calculateWeeklyEarningsWithOvertime(EntriesOfWeek(es, id)))

WeekBuckets(es, ids) == [i \in 1..Len(ids) |-> WeekBucket(es, ids[i])]

aggregateByWeek(entries_) ==
  SortSeq(WeekBuckets(entries_, WeekIdsOf(entries_)),
          LAMBDA a, b : IdBefore(a.weekId, b.weekId))

\* weekMap[weekId].monthId: the month of the first entry met in the week.
MonthIdOfWeek(es, id) == getMonthId(parseLocalDate(EntriesOfWeek(es, id)[1].date))

\* The weeks summed into month m, and their entries.
WeekIdsOfMonth(es, m) == SelectSeq(WeekIdsOf(es), LAMBDA id : MonthIdOfWeek(es, id) = m)

EntriesOfWeeks(es, ids) ==
  SelectSeq(es, LAMBDA e : \E i \in 1..Len(ids) : ids[i] = EntryWeekId(e))

\* The keys of monthMap.
MonthIdsOfWeeks(es, ids) == DistinctIds([i \in 1..Len(ids) |-> MonthIdOfWeek(es, ids[i])])

\* Lines 616-645: the bucket of one month from the sums over its weeks.
MonthBucketOf(m, totalHours, sums) ==
  [monthId          |-> m,
   hours            |-> ToFixed2(totalHours, 10),
   earnings         |-> sums.totalEarnings,
   regularHours     |-> sums.regularHours,
   overtimeHours    |-> sums.overtimeHours,
   regularEarnings  |-> sums.regularEarnings,
   overtimeEarnings |-> sums.overtimeEarnings]

\* The bucket of a month with the overtime calculator applied once to all
\* entries of the month's weeks.
MonthBucketOneCalc(es, m) ==
  MonthBucketOf(m, SumHours(EntriesOfWeeks(es, WeekIdsOfMonth(es, m))),
                calculateWeeklyEarningsWithOvertime(
                  EntriesOfWeeks(es, WeekIdsOfMonth(es, m))))

MonthBucket(es, m) ==
  MonthBucketOf(m, SumHours(EntriesOfWeeks(es, WeekIdsOfMonth(es, m))),
                SumWeeks(WeekIdsOfMonth(es, m), es))

MonthBuckets(es, ms) == [i \in 1..Len(ms) |-> MonthBucket(es, ms[i])]

aggregateByMonth(entries_) ==
  SortSeq(MonthBuckets(entries_, MonthIdsOfWeeks(entries_, WeekIdsOf(entries_))),
          LAMBDA a, b : IdBefore(a.monthId, b.monthId))

(* calculateComparison, lines 488-522                                      *)

\* x.toFixed(k) of the quotient n / d, d > 0, in units of the last kept
\* decimal: to nearest, halves away from zero.
RoundHalfAway(n, d) ==
  IF n >= 0 THEN (2 * n + d) \div (2 * d) ELSE 0 - ((2 * (0 - n) + d) \div (2 * d))

\* Lines 489-497: the neutral result.
NeutralComparison ==
  [raised |-> FALSE, hoursChange |-> 0, hoursChangePercent |-> 0, earningsChange |-> 0,
   earningsChangePercent |-> 0, daysWorkedChange |-> 0, averageHoursChange |-> 0]

\* Reading a property of null or undefined: a TypeError leaves the function.
RaisedComparison == [NeutralComparison EXCEPT !.raised = TRUE]

\* The test of line 489 without its second half.
IsAbsent(p) == p.kind # "object"

\* Line 489: !previousRollup || !previousRollup.totalHours
IsNeutralPrevious(p) == p.kind # "object" \/ ~Truthy(p.totalHours)

\* The quotient in tenths without the factor 100.
PercentUnscaled(delta, previous) ==
  IF previous > 0 THEN RoundHalfAway(10 * delta, previous) ELSE 0

\* Lines 501-503 and 506-508 with toFixed(1) of lines 516 and 518: the change
\* in tenths of a percent.
PercentOf(delta, previous) ==
  IF previous > 0 THEN RoundHalfAway(1000 * delta, previous) ELSE 0

\* Lines 500-521; hours and averages in hundredths, earnings in cents.
ComparisonOf(c, p) ==
  [raised                |-> FALSE,
   hoursChange           |-> RoundHalfAway(c.totalHours - p.totalHours, 1),
   hoursChangePercent    |-> PercentOf(c.totalHours - p.totalHours, p.totalHours),
   earningsChange        |-> RoundHalfAway(c.totalEarnings - p.totalEarnings, 1),
   earningsChangePercent |-> PercentOf(c.totalEarnings - p.totalEarnings, p.totalEarnings),
   daysWorkedChange      |-> c.daysWorked - p.daysWorked,
   averageHoursChange    |-> RoundHalfAway(c.averageHoursPerDay - p.averageHoursPerDay, 1)]

calculateComparison(currentRollup_, previousRollup_) ==
  IF IsNeutralPrevious(previousRollup_) THEN NeutralComparison
  ELSE IF currentRollup_.kind # "object" THEN RaisedComparison
  ELSE ComparisonOf(currentRollup_, previousRollup_)

----------------------------------------------------------------------------
(* Inputs of the period functions                                          *)

\* Reference dates range over RefSpan consecutive days from 2023-12-25:
\* the leap year 2024 with both of its year boundaries.
RefSpan == 400
FirstRefDay == DaysFromCivil(2023, 12, 25)
RefDays == FirstRefDay .. (FirstRefDay + RefSpan - 1)

\* Times of day at which a Date is taken (midnight, or during the day).
RefHours == {0, 15}

\* Hours east of UTC of the host: America/New_York (EST), UTC, Europe/Berlin.
TzOffsets == {-5, 0, 1}

NoDates == [start |-> 0, end |-> 0]

\* No period function applied yet.
DateIdle ==
  /\ datePc = "input"
  /\ monday = 0
  /\ weekId = <<>>
  /\ periodId = <<>>
  /\ periodDates = NoDates
  /\ prevPeriodDate = 0
  /\ prevPeriodId = <<>>
  /\ prevPeriodDates = NoDates

\* No rollup computed yet, on no entries.
CalcIdle ==
  /\ entries = <<>>
  /\ periodStart = 0
  /\ periodEnd = 0
  /\ rollup = <<>>
  /\ calls = 0
  /\ clock = 0

\* The overtime calculator not applied, on no entries.
WeekIdle ==
  /\ weekEntries = <<>>
  /\ weekCalc = NoWeek
  /\ weekPc = "input"

\* The chart aggregators not applied.
ChartIdle ==
  /\ byWeek = <<>>
  /\ byMonth = <<>>
  /\ chartPc = "idle"

\* calculateComparison not applied, on no rollups.
CmpIdle ==
  /\ currentRollup = <<>>
  /\ previousRollup = <<>>
  /\ comparison = <<>>
  /\ cmpPc = "input"

\* The tracker page not open: nothing stored, nothing in flight.
AppIdle ==
  /\ currentWeekStart = 0
  /\ currentHourlyRate = 0
  /\ saveTimeout = <<>>
  /\ renderedWeek = 0
  /\ shownWeekEntries = <<>>
  /\ loads = {}
  /\ storeEntries = {}
  /\ storeRollups = {}
  /\ storeRate = 0
  /\ saves = <<>>
  /\ rateSave = <<>>
  /\ navClicks = 0
  /\ rateClicks = 0

\* Nothing but the period functions in use.
OthersIdle == ChartIdle /\ CmpIdle /\ AppIdle

DateInit ==
  /\ OthersIdle
  /\ tzOffset \in TzOffsets
  /\ periodType \in PeriodTypes
  /\ referenceDate \in {d * HoursPerDay + h : d \in RefDays, h \in RefHours}
  /\ CalcIdle
  /\ WeekIdle
  /\ datePc = "input"
  /\ monday = 0
  /\ weekId = <<>>
  /\ periodId = <<>>
  /\ periodDates = NoDates
  /\ prevPeriodDate = 0
  /\ prevPeriodId = <<>>
  /\ prevPeriodDates = NoDates

\* getMonday / getWeekId applied to referenceDate.
CallGetMonday ==
  /\ datePc = "input"
  /\ monday' = getMonday(referenceDate)
  /\ weekId' = getWeekId(referenceDate)
  /\ datePc' = "monday"
  /\ referenceDate' = CopiedDate(referenceDate, getMonday(referenceDate))
  /\ UNCHANGED <<tzOffset, periodType, periodId, periodDates,
                 prevPeriodDate, prevPeriodId, prevPeriodDates>>
  /\ UNCHANGED <<calcVars, weekVars, chartVars, cmpVars, appVars>>

\* loadReport, reports.js lines 222-223: the period of the reference date.
CallGetPeriod ==
  /\ datePc = "input"
  /\ periodId' = getPeriodId(periodType, referenceDate)
  /\ periodDates' = getPeriodDates(periodType, referenceDate)
  /\ datePc' = "period"
  /\ referenceDate' = CopiedDate(referenceDate, getMonday(referenceDate))
  /\ UNCHANGED <<tzOffset, periodType, monday, weekId,
                 prevPeriodDate, prevPeriodId, prevPeriodDates>>
  /\ UNCHANGED <<calcVars, weekVars, chartVars, cmpVars, appVars>>

\* loadReport, reports.js lines 261-263: the period compared against.
CallNavigatePrev ==
  /\ datePc = "period"
  /\ LET prev == navigatePeriod(periodType, referenceDate, -1)
     IN  /\ prevPeriodDate' = prev
         /\ prevPeriodId' = getPeriodId(periodType, prev)
         /\ prevPeriodDates' = getPeriodDates(periodType, prev)
  /\ datePc' = "navigated"
  /\ referenceDate' = CopiedDate(referenceDate, navigatePeriod(periodType, referenceDate, -1))
  /\ UNCHANGED <<tzOffset, periodType, monday, weekId,
                 periodId, periodDates>>
  /\ UNCHANGED <<calcVars, weekVars, chartVars, cmpVars, appVars>>

DateNext == CallGetMonday \/ CallGetPeriod \/ CallNavigatePrev

SpecDate == DateInit /\ [][DateNext]_vars

(* The period dispatch on any periodType string                            *)

\* Strings that are no period type: another word, the empty string, and the
\* names in another case or form.
OtherPeriodTypes == {"daily", "", "Weekly", "month"}

\* New Year 2025, the afternoon of 2025-10-01, 2025-10-20, New Year's Eve
\* 2025 and Sunday 2026-03-01.
DispatchRefDates ==
  {NewDate(2025, 0, 1), NewDate(2025, 9, 1) + 15, NewDate(2025, 9, 20),
   NewDate(2025, 11, 31) + 15, NewDate(2026, 2, 1)}

DispatchInit ==
  /\ OthersIdle
  /\ tzOffset \in TzOffsets
  /\ periodType \in PeriodTypes \cup OtherPeriodTypes
  /\ referenceDate \in DispatchRefDates
  /\ CalcIdle
  /\ WeekIdle
  /\ DateIdle

DispatchNext == CallGetPeriod

SpecDispatch == DispatchInit /\ [][DispatchNext]_vars

----------------------------------------------------------------------------
(* Inputs of the overtime calculator and of the rollup aggregator          *)

\* An entry document of the given calendar day.
EntryOn(day, v) ==
  [date |-> formatDate(day * HoursPerDay), hours |-> v.hours, hourlyRate |-> v.hourlyRate]

\* The entries of the days ds (a sequence) with the values vs, in that order.
EntriesOn(ds, vs) == [i \in 1..Len(ds) |-> EntryOn(ds[i], vs[i])]

\* The elements of a set of day numbers in ascending order.
RECURSIVE Ascending(_)
Ascending(S) ==
  IF S = {} THEN <<>>
  ELSE LET least == CHOOSE x \in S : \A y \in S : x <= y
       IN  <<least>> \o Ascending(S \ {least})

\* Sequences of k distinct elements of S, in any order.
DistinctSeqs(S, k) == {q \in [1..k -> S] : \A i, j \in 1..k : q[i] = q[j] => i = j}

\* All entry lists over the given day sequences and entry values.
EntryLists(daySeqs, values) ==
  UNION {{EntriesOn(ds, vs) : vs \in [1..Len(ds) -> values]} : ds \in daySeqs}

(* calculateWeeklyEarningsWithOvertime: the entries of one week            *)

\* At most MaxWeekEntries entries, on consecutive days from Monday 2025-10-06
\* (the calculator reads the hours and rates of the list, not the dates).
MaxWeekEntries == 3
WeekEntryDays ==
  {[i \in 1..k |-> DaysFromCivil(2025, 10, 6) + i - 1] : k \in 0..MaxWeekEntries}

\* Hours (5, 7.5, 16 and 24 hours; the hours input steps by 0.5) and hourly
\* rates (none, 20.00 and 25.00).
WeekEntryValues ==
  [hours : {5 * 1000, 15 * 500, 16 * 1000, 24 * 1000},
   hourlyRate : {0, 20 * 100, 25 * 100}]

WeekInit ==
  /\ OthersIdle
  /\ tzOffset = 0
  /\ periodType = "weekly"
  /\ referenceDate = 0
  /\ DateIdle
  /\ CalcIdle
  /\ weekEntries \in EntryLists(WeekEntryDays, WeekEntryValues)
  /\ weekCalc = NoWeek
  /\ weekPc = "input"

CallWeeklyEarnings ==
  /\ weekPc = "input"
  /\ weekCalc' = calculateWeeklyEarningsWithOvertime(weekEntries)
  /\ weekPc' = "done"
  /\ UNCHANGED <<weekEntries, dateVars, calcVars, chartVars, cmpVars, appVars>>

WeekNext == CallWeeklyEarnings

SpecWeek == WeekInit /\ [][WeekNext]_vars

(* calculateRollup: the entries loaded for a period                        *)

\* Days that carry an entry: Monday 2025-09-29 and Wednesday 2025-10-01 (one
\* week, across the month boundary), the Mondays of the next two weeks and
\* Sunday 2025-10-26, the last day of a week.
RollupEntryDays ==
  {DaysFromCivil(2025, 9, 29), DaysFromCivil(2025, 10, 1), DaysFromCivil(2025, 10, 6),
   DaysFromCivil(2025, 10, 13), DaysFromCivil(2025, 10, 26)}

\* Hours and rate of an entry: 1.004 h or 24 h at 20.00, or no hours at 25.00.
RollupEntryValues ==
  {[hours |-> 1004, hourlyRate |-> 20 * 100],
   [hours |-> 24 * 1000, hourlyRate |-> 20 * 100],
   [hours |-> 0, hourlyRate |-> 25 * 100]}

\* Monday to Friday of the week of 2025-10-20 at 8 hours a day, rate 25.00.
WorkWeekEntries ==
  [i \in 1..5 |-> EntryOn(DaysFromCivil(2025, 10, 20) + i - 1,
                          [hours |-> 8 * 1000, hourlyRate |-> 25 * 100])]

\* loadEntriesForPeriod returns the entries in ascending date order (at most
\* MaxEntries of them, or the work week above); a caller may also pass one or
\* two entries in any order.
MaxEntries == 4
RollupDaySeqs ==
  {Ascending(S) : S \in {T \in SUBSET RollupEntryDays : Cardinality(T) <= MaxEntries}}
  \cup UNION {DistinctSeqs(RollupEntryDays, k) : k \in 0..2}

\* The dates whose period is rolled up: the afternoon of 2025-10-01 and
\* midnight of 2025-10-20.
RollupRefDates ==
  {DaysFromCivil(2025, 10, 1) * HoursPerDay + 15,
   DaysFromCivil(2025, 10, 20) * HoursPerDay}

\* calculateRollup is called at most MaxCalls times on the same inputs.
MaxCalls == 2

\* A zone west of UTC and UTC itself (east of UTC new Date(biweekId) falls on
\* the same local day as in UTC).
RollupTzOffsets == {-5, 0}

RollupInit ==
  /\ OthersIdle
  /\ tzOffset \in RollupTzOffsets
  /\ periodType \in PeriodTypes
  /\ referenceDate \in RollupRefDates
  /\ DateIdle
  /\ WeekIdle
  /\ entries \in EntryLists(RollupDaySeqs, RollupEntryValues) \cup {WorkWeekEntries}
  /\ periodStart = 0
  /\ periodEnd = 0
  /\ rollup = <<>>
  /\ calls = 0
  /\ clock = 0

\* The caller resolves the period and rolls the entries up (app.js lines
\* 494-500, reports.js lines 223-237); time has passed since the last call.
CallCalculateRollup ==
  /\ calls < MaxCalls
  /\ periodStart' = CopiedDate(getPeriodDates(periodType, referenceDate).start,
                              normalizeDate(getPeriodDates(periodType, referenceDate).start))
  /\ periodEnd' = CopiedDate(getPeriodDates(periodType, referenceDate).end,
                            normalizeDate(getPeriodDates(periodType, referenceDate).end))
  /\ rollup' = calculateRollup(entries, periodStart', periodEnd', clock)
  /\ calls' = calls + 1
  /\ clock' = clock + 1
  /\ UNCHANGED <<entries, dateVars, weekVars, chartVars, cmpVars, appVars>>

RollupNext == CallCalculateRollup

SpecRollup == RollupInit /\ [][RollupNext]_vars

(* The report's charts: calculateRollup, then the aggregators on its entries *)

\* A monthly or yearly report of 2025-10-20 (updateCharts aggregates these
\* by week and by month) on the entry lists of the rollup.
ChartInit ==
  /\ ChartIdle
  /\ CmpIdle
  /\ AppIdle
  /\ tzOffset = 0
  /\ periodType \in {"monthly", "yearly"}
  /\ referenceDate = NewDate(2025, 9, 20)
  /\ DateIdle
  /\ WeekIdle
  /\ entries \in EntryLists(RollupDaySeqs, RollupEntryValues) \cup {WorkWeekEntries}
  /\ periodStart = 0
  /\ periodEnd = 0
  /\ rollup = <<>>
  /\ calls = 0
  /\ clock = 0

\* updateCharts, reports.js lines 440-448, with both aggregators applied.
CallAggregate ==
  /\ calls >= 1
  /\ chartPc = "idle"
  /\ byWeek' = aggregateByWeek(rollup.entries)
  /\ byMonth' = aggregateByMonth(rollup.entries)
  /\ chartPc' = "done"
  /\ UNCHANGED <<dateVars, calcVars, weekVars, cmpVars, appVars>>

ChartNext == CallCalculateRollup \/ CallAggregate

SpecCharts == ChartInit /\ [][ChartNext]_vars

(* calculateComparison on the rollups of two periods                      *)

\* The rollups compared are those of at most MaxCompareEntries entries on
\* consecutive days from Monday 2025-10-06, of 8 hours at 25.00, 24 hours at
\* 20.00, 24 hours without a rate or no hours.
MaxCompareEntries == 2
CompareDaySeqs ==
  {[i \in 1..k |-> DaysFromCivil(2025, 10, 6) + i - 1] : k \in 0..MaxCompareEntries}

CompareEntryValues ==
  {[hours |-> 8 * 1000, hourlyRate |-> 25 * 100],
   [hours |-> 24 * 1000, hourlyRate |-> 20 * 100],
   [hours |-> 24 * 1000, hourlyRate |-> 0],
   [hours |-> 0, hourlyRate |-> 25 * 100]}

\* The fields of a rollup that calculateComparison reads.
RollupSummary(r) ==
  [kind |-> "object", totalHours |-> r.totalHours, totalEarnings |-> r.totalEarnings,
   daysWorked |-> r.daysWorked, averageHoursPerDay |-> r.averageHoursPerDay]

WeekRollupOf(es) ==
  calculateRollup(es, getPeriodDates("weekly", NewDate(2025, 9, 6)).start,
                  getPeriodDates("weekly", NewDate(2025, 9, 6)).end, 0)

ComputedRollups ==
  {RollupSummary(WeekRollupOf(es)) : es \in EntryLists(CompareDaySeqs, CompareEntryValues)}

\* null, undefined and an object without the fields (a stored document of
\* another shape).
AbsentRollups ==
  {[kind |-> k, totalHours |-> Missing, totalEarnings |-> Missing, daysWorked |-> Missing,
    averageHoursPerDay |-> Missing] : k \in {"null", "undefined", "object"}}

\* The current rollup is computed, null or undefined; the previous one may
\* also be an object without totalHours.
CompareInit ==
  /\ ChartIdle
  /\ AppIdle
  /\ tzOffset = 0
  /\ periodType = "weekly"
  /\ referenceDate = NewDate(2025, 9, 6)
  /\ DateIdle
  /\ WeekIdle
  /\ CalcIdle
  /\ currentRollup \in ComputedRollups \cup {a \in AbsentRollups : a.kind # "object"}
  /\ previousRollup \in ComputedRollups \cup AbsentRollups
  /\ comparison = <<>>
  /\ cmpPc = "input"

\* reports.js line 283 / 571.
CallCalculateComparison ==
  /\ cmpPc = "input"
  /\ comparison' = calculateComparison(currentRollup, previousRollup)
  /\ cmpPc' = "done"
  /\ UNCHANGED <<currentRollup, previousRollup, dateVars, calcVars, weekVars, chartVars,
                 appVars>>

CompareNext == CallCalculateComparison

SpecCompare == CompareInit /\ [][CompareNext]_vars

(* The core functions called on the same arguments, in any order           *)

\* No entry, one entry, or an entry of the week of 2025-10-06 followed by one
\* of the week before (a list out of date order).
CoreDaySeqs ==
  {<<>>, <<DaysFromCivil(2025, 10, 6)>>,
   <<DaysFromCivil(2025, 10, 6), DaysFromCivil(2025, 9, 29)>>}

CoreEntryValues ==
  {[hours |-> 24 * 1000, hourlyRate |-> 20 * 100], [hours |-> 8 * 1000, hourlyRate |-> 25 * 100]}

\* One Date, one entry list and two rollups, handed to the date resolvers,
\* the calculator, calculateRollup, the aggregators and calculateComparison.
CoreInit ==
  /\ AppIdle
  /\ ChartIdle
  /\ DateIdle
  /\ tzOffset = 0
  /\ periodType \in PeriodTypes
  /\ referenceDate \in RollupRefDates
  /\ entries \in EntryLists(CoreDaySeqs, CoreEntryValues)
  /\ weekEntries = entries
  /\ weekCalc = NoWeek
  /\ weekPc = "input"
  /\ periodStart = 0
  /\ periodEnd = 0
  /\ rollup = <<>>
  /\ calls = 0
  /\ clock = 0
  /\ currentRollup \in {r \in ComputedRollups : r.totalHours = 8 * 100}
  /\ previousRollup \in {r \in ComputedRollups \cup AbsentRollups :
                           r.kind = "null" \/ r.totalHours = 24 * 100}
  /\ comparison = <<>>
  /\ cmpPc = "input"

CoreNext ==
  \/ CallGetMonday
  \/ CallGetPeriod
  \/ CallNavigatePrev
  \/ CallWeeklyEarnings
  \/ CallCalculateRollup
  \/ CallAggregate
  \/ CallCalculateComparison

SpecCore == CoreInit /\ [][CoreNext]_vars

(* The rollups of the weeks and of the months of one date range            *)

\* Monday 2025-09-01 to Sunday 2025-11-30 is three whole months and thirteen
\* whole weeks. Entries lie on Monday 2025-09-29 to Thursday 2025-10-02, the
\* week in which the month changes, at most MaxBoundaryEntries of them.
MaxBoundaryEntries == 3
BoundaryDaySeqs ==
  {Ascending(S) : S \in {T \in SUBSET (DaysFromCivil(2025, 9, 29)..DaysFromCivil(2025, 10, 2)) :
                           Cardinality(T) <= MaxBoundaryEntries}}

\* The rollup of the n-th period of the type from the period of date on, as
\* updateEarningsRollups computes it (app.js 494-500).
RollupOfPeriodAfter(es, type, date, n) ==
  calculateRollup(es, getPeriodDates(type, navigatePeriod(type, date, n)).start,
                  getPeriodDates(type, navigatePeriod(type, date, n)).end, 0)

BoundaryInit ==
  /\ AppIdle
  /\ CmpIdle
  /\ ChartIdle
  /\ DateIdle
  /\ WeekIdle
  /\ tzOffset = 0
  /\ periodType = "monthly"
  /\ referenceDate = NewDate(2025, 8, 1)
  /\ entries \in EntryLists(BoundaryDaySeqs, CoreEntryValues)
  /\ periodStart = 0
  /\ periodEnd = 0
  /\ rollup = <<>>
  /\ calls = 0
  /\ clock = 0

\* The thirteen weekly and the three monthly rollups of the entries.
CallRangeRollups ==
  /\ chartPc = "idle"
  /\ byWeek' = [i \in 1..13 |-> RollupOfPeriodAfter(entries, "weekly", referenceDate, i - 1)]
  /\ byMonth' = [i \in 1..3 |-> RollupOfPeriodAfter(entries, "monthly", referenceDate, i - 1)]
  /\ chartPc' = "done"
  /\ UNCHANGED <<dateVars, calcVars, weekVars, cmpVars, appVars>>

BoundaryNext == CallRangeRollups

SpecBoundary == BoundaryInit /\ [][BoundaryNext]_vars

(* The calculators on entries with malformed numeric fields               *)

\* Hours and rate of a partially written entry: a number, or absent, null
\* or a non-numeric string.
LenientValues ==
  [hours : {24 * 1000, Missing, Null, NonNumeric},
   hourlyRate : {20 * 100, Missing, Null, NonNumeric}]

\* Up to two entries, on Monday 2025-10-06 and the next day.
LenientDaySeqs ==
  {<<>>, <<DaysFromCivil(2025, 10, 6)>>,
   <<DaysFromCivil(2025, 10, 6), DaysFromCivil(2025, 10, 6) + 1>>}

\* The same entries are handed to the overtime calculator and, with their
\* week as the period, to calculateRollup.
LenientInit ==
  /\ OthersIdle
  /\ tzOffset = 0
  /\ periodType = "weekly"
  /\ referenceDate = DaysFromCivil(2025, 10, 6) * HoursPerDay
  /\ DateIdle
  /\ entries \in EntryLists(LenientDaySeqs, LenientValues)
  /\ periodStart = 0
  /\ periodEnd = 0
  /\ rollup = <<>>
  /\ calls = 0
  /\ clock = 0
  /\ weekEntries = entries
  /\ weekCalc = NoWeek
  /\ weekPc = "input"

LenientNext == CallWeeklyEarnings \/ CallCalculateRollup

SpecLenient == LenientInit /\ [][LenientNext]_vars

----------------------------------------------------------------------------
(* app.js: the tracker page, its event handlers and the store              *)
(*                                                                         *)
(* An entry document is a record with its path (week) and the fields date, *)
(* weekday, hours, notes and hourlyRate; an absent field is Missing, note  *)
(* texts are numbered. The coworker input behaves as the notes input and   *)
(* is left out. Every await of a handler ends a step; the reads of one     *)
(* loadEntriesForPeriod or loadWeekEntries call are taken as one snapshot. *)

MaxSaves == 2
MaxNavClicks == 2
MaxRateSaves == 1
MaxUserEvents == 3

\* The inputs edited: the hours of Monday and of Tuesday of the rendered
\* week set to "8" and a text put in the notes of Monday, as <<row, field,
\* value>>; the rate entered in the settings is 25.00 (20.00 is configured at
\* start).
RowInputs == {<<0, "hours", 8 * 1000>>, <<1, "hours", 8 * 1000>>, <<0, "notes", 1>>}
RateInputs == {25 * 100}
PeriodTypeSeq == <<"weekly", "biweekly", "monthly", "yearly">>

\* entrySnap.exists() ? entrySnap.data() : {}
NoData ==
  [week |-> <<>>, date |-> <<>>, weekday |-> "", hours |-> Missing, notes |-> Missing,
   hourlyRate |-> Missing]

DocAt(store, week, date) ==
  IF \E d \in store : d.week = week /\ d.date = date
  THEN CHOOSE d \in store : d.week = week /\ d.date = date
  ELSE NoData

\* setDoc(entryRef, data) without merge: the document is replaced.
SetDoc(store, doc) ==
  {d \in store : ~(d.week = doc.week /\ d.date = doc.date)} \cup {doc}

\* Lines 514-543: the documents found at weeks/{getWeekId(date)}/entries/{date}
\* for the dates from startDate, a day apart, up to endDate, in that order.
loadEntriesForPeriod(store, startDate, endDate) ==
  LET found == {d \in store :
                  /\ d.week = getWeekId(parseLocalDate(d.date))
                  /\ parseLocalDate(d.date) >= normalizeDate(startDate)
                  /\ parseLocalDate(d.date) + HourOf(startDate) <= endDate}
      days  == Ascending({DaysFromCivil(d.date[1], d.date[2], d.date[3]) : d \in found})
  IN  [i \in 1..Len(days) |->
         CHOOSE d \in found : DaysFromCivil(d.date[1], d.date[2], d.date[3]) = days[i]]

\* Lines 278-317: the stored entry of each date of the week, else a
\* placeholder with 0 hours.
loadWeekEntries(store, weekStart) ==
  [i \in 1..7 |->
     LET date == getWeekDates(weekStart)[i]
         doc  == DocAt(store, getWeekId(weekStart), formatDate(date))
     IN  IF doc # NoData THEN doc
         ELSE [week |-> getWeekId(weekStart), date |-> formatDate(date),
               weekday |-> getWeekdayName(date), hours |-> 0, notes |-> 0,
               hourlyRate |-> Missing]]

\* Lines 442-444: saveEntry up to its first await.
NewSave(date, field, value) ==
  [pc |-> "getDoc", date |-> date, field |-> field, value |-> value,
   weekId |-> getWeekId(currentWeekStart), currentData |-> NoData, typeIdx |-> 1,
   loaded |-> <<>>]

\* The document written with the weekday of currentWeekStart in place of that
\* of the date found.
UpdatedDataWeekdayOfWeekStart(t, dateObj) ==
  [week       |-> t.weekId,
   date       |-> t.date,
   weekday    |-> getWeekdayName(currentWeekStart),
   hours      |-> IF t.field = "hours" THEN ParseFloatOrZero(t.value) ELSE t.currentData.hours,
   notes      |-> IF t.field = "notes" THEN t.value ELSE t.currentData.notes,
   hourlyRate |-> IF t.currentData.hourlyRate # Missing THEN t.currentData.hourlyRate
                  ELSE currentHourlyRate]

\* Lines 455-464: the document written.
UpdatedData(t, dateObj) ==
  [week       |-> t.weekId,
   date       |-> t.date,
   weekday    |-> getWeekdayName(dateObj),
   hours      |-> IF t.field = "hours" THEN ParseFloatOrZero(t.value) ELSE t.currentData.hours,
   notes      |-> IF t.field = "notes" THEN t.value ELSE t.currentData.notes,
   hourlyRate |-> IF t.currentData.hourlyRate # Missing THEN t.currentData.hourlyRate
                  ELSE currentHourlyRate]

\* Line 494 for the save's period type: updateEarningsRollups(new Date(date)).
PeriodOfSave(t) == getPeriodDates(PeriodTypeSeq[t.typeIdx], ParseIsoDate(t.date))

\* Lines 503-504: the rollup document and its id.
RollupDoc(t) ==
  [periodType |-> PeriodTypeSeq[t.typeIdx],
   periodId   |-> getPeriodId(PeriodTypeSeq[t.typeIdx], ParseIsoDate(t.date)),
   rollup     |-> calculateRollup(t.loaded, PeriodOfSave(t).start, PeriodOfSave(t).end, 0)]

SetRollupDoc(store, doc) ==
  {r \in store : ~(r.periodType = doc.periodType /\ r.periodId = doc.periodId)} \cup {doc}

\* The date of a row of the rendered table.
RowDate(off) == formatDate(getWeekDates(renderedWeek)[1 + off])

\* The user's actions so far: saves started or pending on the timer, week
\* clicks and rate saves.
UserEvents ==
  Len(saves) + (IF saveTimeout # <<>> THEN 1 ELSE 0) + navClicks + rateClicks

\* The page after init: the week of Wednesday 2025-10-08 10:00 shown, the
\* rate 20.00 loaded, nothing stored and nothing in flight.
AppInit ==
  /\ tzOffset = 0
  /\ periodType = "weekly"
  /\ referenceDate = NewDate(2025, 9, 8) + 10
  /\ DateIdle
  /\ CalcIdle
  /\ WeekIdle
  /\ ChartIdle
  /\ CmpIdle
  /\ currentWeekStart = NewDate(2025, 9, 8) + 10
  /\ currentHourlyRate = 20 * 100
  /\ storeRate = 20 * 100
  /\ saveTimeout = <<>>
  /\ renderedWeek = NewDate(2025, 9, 8) + 10
  /\ shownWeekEntries = loadWeekEntries({}, NewDate(2025, 9, 8) + 10)
  /\ loads = {}
  /\ storeEntries = {}
  /\ storeRollups = {}
  /\ saves = <<>>
  /\ rateSave = <<>>
  /\ navClicks = 0
  /\ rateClicks = 0

\* handleInputChange, lines 406-421: the pending timer is replaced.
InputChange ==
  /\ saveTimeout # <<>> \/ (UserEvents < MaxUserEvents /\ Len(saves) < MaxSaves)
  /\ \E in \in RowInputs : saveTimeout' = <<RowDate(in[1]), in[2], in[3]>>
  /\ UNCHANGED <<currentWeekStart, currentHourlyRate, renderedWeek, shownWeekEntries, loads,
                 storeEntries, storeRollups, storeRate, saves, rateSave, navClicks,
                 rateClicks, dateVars, calcVars, weekVars, chartVars, cmpVars>>

\* The timer of line 418 fires: saveEntry(date, field, value) starts.
TimerFires ==
  /\ saveTimeout # <<>>
  /\ Len(saves) < MaxSaves
  /\ saves' = Append(saves, NewSave(saveTimeout[1], saveTimeout[2], saveTimeout[3]))
  /\ saveTimeout' = <<>>
  /\ UNCHANGED <<currentWeekStart, currentHourlyRate, renderedWeek, shownWeekEntries, loads,
                 storeEntries, storeRollups, storeRate, rateSave, navClicks, rateClicks,
                 dateVars, calcVars, weekVars, chartVars, cmpVars>>

\* handleInputBlur, lines 424-437: the timer is cleared and saveEntry starts.
InputBlur ==
  /\ Len(saves) < MaxSaves
  /\ saveTimeout # <<>> \/ UserEvents < MaxUserEvents
  /\ \E in \in RowInputs : saves' = Append(saves, NewSave(RowDate(in[1]), in[2], in[3]))
  /\ saveTimeout' = <<>>
  /\ UNCHANGED <<currentWeekStart, currentHourlyRate, renderedWeek, shownWeekEntries, loads,
                 storeEntries, storeRollups, storeRate, rateSave, navClicks, rateClicks,
                 dateVars, calcVars, weekVars, chartVars, cmpVars>>

\* saveEntry, line 447: the store answers getDoc(entryRef).
SaveGetDoc ==
  /\ \E i \in 1..Len(saves) :
       /\ saves[i].pc = "getDoc"
       /\ saves' = [saves EXCEPT ![i].pc = "gotDoc",
                                 ![i].currentData =
                                   DocAt(storeEntries, saves[i].weekId, saves[i].date)]
  /\ UNCHANGED <<currentWeekStart, currentHourlyRate, saveTimeout, renderedWeek,
                 shownWeekEntries, loads, storeEntries, storeRollups, storeRate, rateSave,
                 navClicks, rateClicks, dateVars, calcVars, weekVars, chartVars, cmpVars>>

\* saveEntry, lines 448-467: the date is looked up among the dates of the
\* week of currentWeekStart; getWeekdayName(undefined) raises into the catch
\* of line 478, else the document is written.
SaveSetDoc ==
  /\ \E i \in 1..Len(saves) :
       /\ saves[i].pc = "gotDoc"
       /\ LET found == {k \in 1..7 :
                          formatDate(getWeekDates(currentWeekStart)[k]) = saves[i].date}
          IN  IF found = {}
              THEN /\ saves' = [saves EXCEPT ![i].pc = "failed"]
                   /\ UNCHANGED storeEntries
              ELSE /\ storeEntries' =
                        SetDoc(storeEntries,
                               UpdatedData(saves[i],
                                           getWeekDates(currentWeekStart)[CHOOSE k \in found : TRUE]))
                   /\ saves' = [saves EXCEPT ![i].pc = "loadEntries"]
  /\ UNCHANGED <<currentWeekStart, currentHourlyRate, saveTimeout, renderedWeek,
                 shownWeekEntries, loads, storeRollups, storeRate, rateSave, navClicks,
                 rateClicks, dateVars, calcVars, weekVars, chartVars, cmpVars>>

\* updateEarningsRollups, lines 494-497: the entries of the period are read.
SaveLoadEntries ==
  /\ \E i \in 1..Len(saves) :
       /\ saves[i].pc = "loadEntries"
       /\ saves' = [saves EXCEPT ![i].pc = "setRollup",
                                 ![i].loaded =
                                   loadEntriesForPeriod(storeEntries, PeriodOfSave(saves[i]).start,
                                                        PeriodOfSave(saves[i]).end)]
  /\ UNCHANGED <<currentWeekStart, currentHourlyRate, saveTimeout, renderedWeek,
                 shownWeekEntries, loads, storeEntries, storeRollups, storeRate, rateSave,
                 navClicks, rateClicks, dateVars, calcVars, weekVars, chartVars, cmpVars>>

\* updateEarningsRollups, lines 500-504: the rollup of the entries read is
\* written; the loop goes on to the next period type.
SaveSetRollup ==
  /\ \E i \in 1..Len(saves) :
       /\ saves[i].pc = "setRollup"
       /\ storeRollups' = SetRollupDoc(storeRollups, RollupDoc(saves[i]))
       /\ saves' = IF saves[i].typeIdx < Len(PeriodTypeSeq)
                   THEN [saves EXCEPT ![i].pc = "loadEntries", ![i].loaded = <<>>,
                                      ![i].typeIdx = saves[i].typeIdx + 1]
                   ELSE [saves EXCEPT ![i].pc = "reload", ![i].loaded = <<>>]
  /\ UNCHANGED <<currentWeekStart, currentHourlyRate, saveTimeout, renderedWeek,
                 shownWeekEntries, loads, storeEntries, storeRate, rateSave, navClicks,
                 rateClicks, dateVars, calcVars, weekVars, chartVars, cmpVars>>

\* saveEntry, lines 473-475: weekEntries is reloaded for currentWeekStart.
SaveReload ==
  /\ \E i \in 1..Len(saves) :
       /\ saves[i].pc = "reload"
       /\ saves' = [saves EXCEPT ![i].pc = "done"]
  /\ shownWeekEntries' = loadWeekEntries(storeEntries, currentWeekStart)
  /\ UNCHANGED <<currentWeekStart, currentHourlyRate, saveTimeout, renderedWeek, loads,
                 storeEntries, storeRollups, storeRate, rateSave, navClicks, rateClicks,
                 dateVars, calcVars, weekVars, chartVars, cmpVars>>

\* The previous / next buttons, lines 137-145: currentWeekStart moves and
\* loadWeek starts.
NavClick ==
  /\ navClicks < MaxNavClicks
  /\ UserEvents < MaxUserEvents
  /\ \E direction \in {-1, 1} :
       /\ currentWeekStart' = addWeeks(currentWeekStart, direction)
       /\ loads' = loads \cup {[id |-> navClicks + 1,
                                weekStart |-> addWeeks(currentWeekStart, direction)]}
  /\ navClicks' = navClicks + 1
  /\ UNCHANGED <<currentHourlyRate, saveTimeout, renderedWeek, shownWeekEntries,
                 storeEntries, storeRollups, storeRate, saves, rateSave, rateClicks,
                 dateVars, calcVars, weekVars, chartVars, cmpVars>>

\* loadWeek storing the placeholders it shows.
LoadWeekDonePersisting ==
  /\ \E l \in loads :
       /\ shownWeekEntries' = loadWeekEntries(storeEntries, l.weekStart)
       /\ renderedWeek' = l.weekStart
       /\ loads' = loads \ {l}
  /\ storeEntries' = storeEntries \cup {shownWeekEntries'[i] : i \in 1..7}
  /\ UNCHANGED <<currentWeekStart, currentHourlyRate, saveTimeout,
                 storeRollups, storeRate, saves, rateSave, navClicks, rateClicks,
                 dateVars, calcVars, weekVars, chartVars, cmpVars>>

\* loadWeek, lines 264-267: the entries arrive and the table is rendered.
LoadWeekDone ==
  /\ \E l \in loads :
       /\ shownWeekEntries' = loadWeekEntries(storeEntries, l.weekStart)
       /\ renderedWeek' = l.weekStart
       /\ loads' = loads \ {l}
  /\ UNCHANGED <<currentWeekStart, currentHourlyRate, saveTimeout, storeEntries,
                 storeRollups, storeRate, saves, rateSave, navClicks, rateClicks,
                 dateVars, calcVars, weekVars, chartVars, cmpVars>>

\* saveHourlyRate, lines 221-236: the rate is sent to the store.
RateClick ==
  /\ rateClicks < MaxRateSaves
  /\ UserEvents < MaxUserEvents
  /\ rateSave = <<>>
  /\ \E newRate \in RateInputs : rateSave' = <<newRate>>
  /\ rateClicks' = rateClicks + 1
  /\ UNCHANGED <<currentWeekStart, currentHourlyRate, saveTimeout, renderedWeek,
                 shownWeekEntries, loads, storeEntries, storeRollups, storeRate, saves,
                 navClicks, dateVars, calcVars, weekVars, chartVars, cmpVars>>

\* saveHourlyRate, lines 233-238: the write is done and currentHourlyRate set.
RateSaved ==
  /\ rateSave # <<>>
  /\ storeRate' = rateSave[1]
  /\ currentHourlyRate' = rateSave[1]
  /\ rateSave' = <<>>
  /\ UNCHANGED <<currentWeekStart, saveTimeout, renderedWeek, shownWeekEntries, loads,
                 storeEntries, storeRollups, saves, navClicks, rateClicks, dateVars,
                 calcVars, weekVars, chartVars, cmpVars>>

AppNext ==
  \/ InputChange
  \/ TimerFires
  \/ InputBlur
  \/ SaveGetDoc
  \/ SaveSetDoc
  \/ SaveLoadEntries
  \/ SaveSetRollup
  \/ SaveReload
  \/ NavClick
  \/ LoadWeekDone
  \/ RateClick
  \/ RateSaved

SpecApp == AppInit /\ [][AppNext]_vars

----------------------------------------------------------------------------
(* Properties of the period resolver                                       *)

\* A date lies in a {start, end} range at day granularity, the way
\* calculateRollup compares an entry date with the normalized period bounds.
InPeriod(t, range) ==
  /\ DayOf(normalizeDate(range.start)) <= DayOf(t)
  /\ DayOf(t) <= DayOf(normalizeDate(range.end))

\* Dates against which a period is probed: noon of every day from
\* ProbeMargin days before the first reference day to ProbeMargin days after
\* the last one.
ProbeMargin == 40
ProbeDates ==
  {d * HoursPerDay + 12 :
     d \in (FirstRefDay - ProbeMargin) .. (FirstRefDay + RefSpan - 1 + ProbeMargin)}

\* Days from a date back to the Monday of its Monday-to-Sunday week.
DaysSinceMonday(t) == (getDay(t) + 6) % 7

\* C6: for weekly, monthly and yearly periods the reference date lies inside
\* getPeriodDates(type, d) (for weekly the range is Monday .. Monday + 6 of
\* d's week), every date inside the range has the same getPeriodId as d and
\* every date outside it has a different one (dates compared by day).
PeriodPartition ==
  (datePc = "period" /\ periodType \in {"weekly", "monthly", "yearly"}) =>
     /\ InPeriod(referenceDate, periodDates)
     /\ periodType = "weekly" =>
          /\ DayOf(periodDates.start) = DayOf(referenceDate) - DaysSinceMonday(referenceDate)
          /\ DayOf(periodDates.end) = DayOf(periodDates.start) + 6
     /\ \A e \in ProbeDates :
          InPeriod(e, periodDates) <=> (getPeriodId(periodType, e) = periodId)

\* C6 witness: a monthly period resolved for the last day of a leap February.
PeriodPartitionWitness ==
  /\ datePc = "period"
  /\ periodType = "monthly"
  /\ formatDate(referenceDate) = <<2024, 2, 29>>
  /\ formatDate(periodDates.end) = <<2024, 2, 29>>
  /\ periodId = <<2024, 2>>

\* C7: every date lies in the range getBiweekDates returns for exactly one
\* biweekly period, the one whose id is getBiweekId of the date: a date is
\* inside the range of d's period iff it has d's biweekId.
BiweekPartition ==
  (datePc = "period" /\ periodType = "biweekly") =>
     \A e \in ProbeDates :
        InPeriod(e, periodDates) <=> (getBiweekId(e) = periodId)

\* First Monday on or after the 1st of the month of t, as a day number.
FirstMondayOfMonth(t) ==
  LET first == NewDate(getFullYear(t), getMonth(t), 1)
  IN  DayOf(first) + ((8 - getDay(first)) % 7)

\* C8: getBiweekId(date) is the start of the 14-day block containing date,
\* the blocks being counted in 14-day steps from the first Monday on or
\* after the 1st of the month (stated for dates on or after that Monday).
BiweekIdFromFirstMonday ==
  (/\ datePc = "period"
   /\ periodType = "biweekly"
   /\ DayOf(referenceDate) >= FirstMondayOfMonth(referenceDate)) =>
     LET anchor == FirstMondayOfMonth(referenceDate)
         block  == anchor + ((DayOf(referenceDate) - anchor) \div 14) * 14
     IN  periodId = formatDate(block * HoursPerDay)

\* C9: getMonday returns the Monday of the Monday-to-Sunday week of the
\* date: 0 days back for a Monday, 1..5 for Tuesday..Saturday, 6 for a
\* Sunday; getWeekId is the YYYY-MM-DD of that Monday.
MondayOfWeek ==
  datePc = "monday" =>
     /\ (DayOf(monday) + 4) % 7 = 1
     /\ DayOf(referenceDate) - DayOf(monday) = DaysSinceMonday(referenceDate)
     /\ DaysFromCivil(weekId[1], weekId[2], weekId[3]) = DayOf(monday)

\* C9 witness: getMonday of a Sunday is the Monday 6 days earlier.
MondayOfWeekWitness ==
  /\ datePc = "monday"
  /\ getDay(referenceDate) = 0
  /\ DayOf(monday) = DayOf(referenceDate) - 6
  /\ weekId = formatDate(monday)

\* C10: the period containing navigatePeriod(type, d, -1) ends the day
\* before the period containing d begins, for every period type.
PreviousPeriodAdjacent ==
  datePc = "navigated" =>
     DayOf(prevPeriodDates.end) + 1 = DayOf(periodDates.start)

----------------------------------------------------------------------------
(* Properties of the overtime calculator and of the rollup aggregator      *)

\* The sum of f[x] over the elements x of a finite set S, f a function on S.
RECURSIVE SumOver(_, _)
SumOver(S, f) ==
  IF S = {} THEN 0
  ELSE LET x == CHOOSE y \in S : TRUE IN f[x] + SumOver(S \ {x}, f)

Min(a, b) == IF a <= b THEN a ELSE b
Max(a, b) == IF a >= b THEN a ELSE b

\* The summed hours of a set of entries.
HoursOf(S) == SumOver(S, [e \in S |-> e.hours])

\* The calendar day of an entry and the Monday of its week, as day numbers.
EntryDay(e) == DaysFromCivil(e.date[1], e.date[2], e.date[3])
EntryMonday(e) == EntryDay(e) - ((EntryDay(e) + 3) % 7)

\* The entries of the list dated within periodStart .. periodEnd (by day).
EntriesInPeriod ==
  {entries[i] : i \in {j \in 1..Len(entries) :
                         /\ DayOf(periodStart) <= EntryDay(entries[j])
                         /\ EntryDay(entries[j]) <= DayOf(periodEnd)}}

WeeksInPeriod == {EntryMonday(e) : e \in EntriesInPeriod}

\* H_w: the total hours of the period's entries in the week of Monday w.
HoursInWeek(w) == HoursOf({e \in EntriesInPeriod : EntryMonday(e) = w})

RegularOfWeek(w) == ToFixed2(Min(40 * 1000, HoursInWeek(w)), 10)
OvertimeOfWeek(w) == ToFixed2(Max(0, HoursInWeek(w) - 40 * 1000), 10)

WeekTotalHours == HoursOf({weekEntries[i] : i \in 1..Len(weekEntries)})

\* C2: up to 40 hours (40 included) the overtime calculator returns
\* regularHours = totalHours and overtimeHours = 0; above 40 it returns
\* regularHours = 40 and overtimeHours = totalHours - 40.
OvertimeThreshold ==
  weekPc = "done" =>
     IF WeekTotalHours <= 40 * 1000
       THEN /\ weekCalc.regularHours * 10 = WeekTotalHours
            /\ weekCalc.overtimeHours = 0
       ELSE /\ weekCalc.regularHours = 40 * 100
            /\ weekCalc.overtimeHours * 10 = WeekTotalHours - 40 * 1000

\* C2 witness: a week of exactly 40 hours has no overtime.
OvertimeThresholdWitness ==
  /\ weekPc = "done"
  /\ WeekTotalHours = 40 * 1000
  /\ weekCalc.regularHours = 40 * 100
  /\ weekCalc.overtimeHours = 0

\* The rate of the first entry, in list order, whose rate is nonzero, else 0.
FirstNonzeroRate ==
  LET nonzero == {i \in 1..Len(weekEntries) : weekEntries[i].hourlyRate # 0}
  IN  IF nonzero = {} THEN 0
      ELSE weekEntries[CHOOSE i \in nonzero : \A j \in nonzero : i <= j].hourlyRate

\* C3: the week is priced at a single rate, that of the first entry with a
\* nonzero rate (0 if none): regularEarnings = regularHours x rate,
\* overtimeEarnings = overtimeHours x rate x 1.5, totalEarnings their sum.
SingleRatePricing ==
  weekPc = "done" =>
     /\ weekCalc.regularEarnings * 100 = weekCalc.regularHours * FirstNonzeroRate
     /\ weekCalc.overtimeEarnings * 200 = weekCalc.overtimeHours * FirstNonzeroRate * 3
     /\ weekCalc.totalEarnings = weekCalc.regularEarnings + weekCalc.overtimeEarnings

\* C3 witness: 45 hours whose entries carry the rates 0, 20.00 and 25.00 in
\* that order are priced at 20.00: 800.00 regular, 150.00 overtime, 950.00.
SingleRatePricingWitness ==
  /\ weekPc = "done"
  /\ Len(weekEntries) = 3
  /\ weekEntries[1].hourlyRate = 0
  /\ weekEntries[2].hourlyRate = 20 * 100
  /\ weekEntries[3].hourlyRate = 25 * 100
  /\ WeekTotalHours = 45 * 1000
  /\ weekCalc.regularEarnings = 800 * 100
  /\ weekCalc.overtimeEarnings = 150 * 100
  /\ weekCalc.totalEarnings = 950 * 100

Distance(a, b) == IF a >= b THEN a - b ELSE b - a

\* C4: in every rollup regularHours + overtimeHours is within 0.01 of
\* totalHours and regularEarnings + overtimeEarnings within 0.01 of
\* totalEarnings.
RollupConservation ==
  calls >= 1 =>
     /\ Distance(rollup.regularHours + rollup.overtimeHours, rollup.totalHours) <= 1
     /\ Distance(rollup.regularEarnings + rollup.overtimeEarnings,
                 rollup.totalEarnings) <= 1

\* A rollup without its lastUpdated timestamp.
WithoutLastUpdated(r) == [r EXCEPT !.lastUpdated = 0]

KeptByPeriod(e) ==
  /\ DayOf(periodStart) <= EntryDay(e)
  /\ EntryDay(e) <= DayOf(periodEnd)

\* C14: the period filter of calculateRollup keeps exactly the entries dated
\* from periodStart to periodEnd by calendar day, both boundary days included
\* and whatever the time of day of the bounds, for any input order, and
\* returns them in their input order.
PeriodFilterByDay ==
  calls >= 1 => rollup.entries = SelectSeq(entries, KeptByPeriod)

\* C14 witness: the week of Monday 2025-10-20 seen from a reference date,
\* with the entry of its last day given before an earlier entry outside it.
PeriodFilterByDayWitness ==
  /\ calls >= 1
  /\ periodType = "weekly"
  /\ rollup.periodEnd = <<2025, 10, 26>>
  /\ Len(entries) = 2
  /\ entries[1].date = <<2025, 10, 26>>
  /\ entries[2].date = <<2025, 10, 13>>
  /\ rollup.entries = <<entries[1]>>

\* C15: daysWorked counts the period entries with hours > 0,
\* averageHoursPerDay is totalHours / daysWorked (0 without days worked),
\* totalDays is the number of calendar days from periodStart to periodEnd
\* inclusive and averageHoursPerDayIncludingNonWork is totalHours / totalDays.
RollupAverages ==
  calls >= 1 =>
    LET worked == Cardinality({e \in EntriesInPeriod : e.hours > 0})
        days == DayOf(periodEnd) - DayOf(periodStart) + 1
    IN  /\ rollup.daysWorked = worked
        /\ rollup.averageHoursPerDay =
             (IF worked = 0 THEN 0 ELSE ToFixed2(HoursOf(EntriesInPeriod), 10 * worked))
        /\ rollup.totalDays = days
        /\ rollup.averageHoursPerDayIncludingNonWork =
             ToFixed2(HoursOf(EntriesInPeriod), 10 * days)

\* C15 witness: Monday to Friday at 8 hours and rate 25.00 give 40 hours, no
\* overtime, 1000.00 earned, 5 days worked and 8.00 hours a day.
RollupAveragesWitness ==
  /\ calls >= 1
  /\ periodType = "weekly"
  /\ entries = WorkWeekEntries
  /\ rollup.totalHours = 40 * 100
  /\ rollup.regularHours = 40 * 100
  /\ rollup.overtimeHours = 0
  /\ rollup.totalEarnings = 1000 * 100
  /\ rollup.daysWorked = 5
  /\ rollup.totalDays = 7
  /\ rollup.averageHoursPerDay = 8 * 100

\* A field value with 0 in place of anything that is not a number.
ZeroUnlessNumber(x) == IF x >= 0 THEN x ELSE 0

\* The entries with every non-numeric hours or hourlyRate replaced by 0.
WithZeros(es) ==
  [i \in 1..Len(es) |->
     [es[i] EXCEPT !.hours = ZeroUnlessNumber(es[i].hours),
                   !.hourlyRate = ZeroUnlessNumber(es[i].hourlyRate)]]

\* The numeric fields of a rollup.
NumericFields(r) ==
  <<r.totalHours, r.regularHours, r.overtimeHours, r.totalEarnings,
    r.regularEarnings, r.overtimeEarnings, r.daysWorked, r.totalDays,
    r.averageHoursPerDay, r.averageHoursPerDayIncludingNonWork>>

\* C20: an entry whose hours or hourlyRate is missing, null or a non-numeric
\* string counts as 0 in that field: the overtime calculator and
\* calculateRollup return the numbers they return with the field replaced
\* by 0, none of them NaN.
LenientParsing ==
  /\ weekPc = "done" =>
       weekCalc = calculateWeeklyEarningsWithOvertime(WithZeros(weekEntries))
  /\ calls >= 1 =>
       NumericFields(rollup) =
         NumericFields(calculateRollup(WithZeros(entries), periodStart, periodEnd, 0))

\* The sum of a field over the buckets of a chart.
RECURSIVE SumBuckets(_, _)
SumBuckets(buckets, field) ==
  IF buckets = <<>> THEN 0
  ELSE buckets[1][field] + SumBuckets(Tail(buckets), field)

\* C18: over the buckets of aggregateByMonth and over those of
\* aggregateByWeek, earnings, regularHours and overtimeHours add up to the
\* rollup's totalEarnings, regularHours and overtimeHours of the same entries,
\* and hours to its totalHours within the rounding of each bucket (half a
\* hundredth per bucket).
ChartsAgreeWithRollup ==
  chartPc = "done" =>
    /\ SumBuckets(byWeek, "earnings") = rollup.totalEarnings
    /\ SumBuckets(byMonth, "earnings") = rollup.totalEarnings
    /\ SumBuckets(byWeek, "regularHours") = rollup.regularHours
    /\ SumBuckets(byMonth, "regularHours") = rollup.regularHours
    /\ SumBuckets(byWeek, "overtimeHours") = rollup.overtimeHours
    /\ SumBuckets(byMonth, "overtimeHours") = rollup.overtimeHours
    /\ 2 * Distance(SumBuckets(byWeek, "hours"), rollup.totalHours) <= Len(byWeek)
    /\ 2 * Distance(SumBuckets(byMonth, "hours"), rollup.totalHours) <= Len(byMonth)

\* C18 witness: a year with a 48-hour week across two months and a 24-hour
\* week: 8 overtime hours in the week buckets, the month buckets and the
\* rollup alike.
ChartsAgreeWithRollupWitness ==
  /\ chartPc = "done"
  /\ periodType = "yearly"
  /\ Len(byWeek) = 2
  /\ Len(byMonth) = 2
  /\ rollup.totalHours = 72 * 100
  /\ rollup.overtimeHours = 8 * 100
  /\ SumBuckets(byWeek, "overtimeHours") = 8 * 100
  /\ SumBuckets(byMonth, "overtimeHours") = 8 * 100
  /\ SumBuckets(byMonth, "earnings") = rollup.totalEarnings
  /\ rollup.totalEarnings > 0

\* The rate of the first entry of the rollup, in list order, that lies in
\* the week of Monday w and has a nonzero rate, else 0.
FirstRateOfWeek(w) ==
  LET nonzero == {i \in 1..Len(rollup.entries) :
                    /\ EntryMonday(rollup.entries[i]) = w
                    /\ rollup.entries[i].hourlyRate # 0}
  IN  IF nonzero = {} THEN 0
      ELSE rollup.entries[CHOOSE i \in nonzero : \A j \in nonzero : i <= j].hourlyRate

\* Overtime-adjusted earnings of H thousandths of an hour at rate r, in cents.
OvertimeEarningsOf(H, r) ==
  ToFixed2(2 * Min(40 * 1000, H) * r + 3 * Max(0, H - 40 * 1000) * r, 2000)

\* C19: aggregateByWeek returns one bucket per distinct week of its entries,
\* in ascending weekId order, each with the week's summed hours, the
\* overtime split of those hours and earnings of regular hours x rate plus
\* overtime hours x rate x 1.5.
WeekBucketsPerWeek ==
  chartPc = "done" =>
    /\ {DaysFromCivil(byWeek[i].weekId[1], byWeek[i].weekId[2], byWeek[i].weekId[3]) :
          i \in 1..Len(byWeek)} = {EntryMonday(e) : e \in EntriesInPeriod}
    /\ Len(byWeek) = Cardinality({EntryMonday(e) : e \in EntriesInPeriod})
    /\ \A i \in 1..(Len(byWeek) - 1) : IdBefore(byWeek[i].weekId, byWeek[i + 1].weekId)
    /\ \A i \in 1..Len(byWeek) :
         LET w == DaysFromCivil(byWeek[i].weekId[1], byWeek[i].weekId[2],
                                byWeek[i].weekId[3])
         IN  /\ byWeek[i].hours = ToFixed2(HoursInWeek(w), 10)
             /\ byWeek[i].regularHours = RegularOfWeek(w)
             /\ byWeek[i].overtimeHours = OvertimeOfWeek(w)
             /\ byWeek[i].earnings = OvertimeEarningsOf(HoursInWeek(w), FirstRateOfWeek(w))

\* C19 witness: two entries given latest week first; the bucket of the week
\* of 2025-09-29 comes first, with 24 hours at 20.00, and the bucket of the
\* week of 2025-10-06 second.
WeekBucketsPerWeekWitness ==
  /\ chartPc = "done"
  /\ Len(rollup.entries) = 2
  /\ rollup.entries[1].date = <<2025, 10, 6>>
  /\ Len(byWeek) = 2
  /\ byWeek[1].weekId = <<2025, 9, 29>>
  /\ byWeek[2].weekId = <<2025, 10, 6>>
  /\ byWeek[1].hours = 24 * 100
  /\ byWeek[1].regularHours = 24 * 100
  /\ byWeek[1].earnings = 480 * 100

\* C16: whenever previous is null or undefined, or previous.totalHours is 0
\* or undefined, calculateComparison returns the six deltas 0 and does not
\* raise, whatever current is.
NeutralWithoutPrevious ==
  (/\ cmpPc = "done"
   /\ \/ previousRollup.kind \in {"null", "undefined"}
      \/ previousRollup.totalHours \in {0, Missing}) =>
    /\ ~comparison.raised
    /\ comparison.hoursChange = 0
    /\ comparison.hoursChangePercent = 0
    /\ comparison.earningsChange = 0
    /\ comparison.earningsChangePercent = 0
    /\ comparison.daysWorkedChange = 0
    /\ comparison.averageHoursChange = 0

\* C16 witness: a current rollup of 48 hours compared with a previous rollup
\* whose totalHours is 0.
NeutralWithoutPreviousWitness ==
  /\ cmpPc = "done"
  /\ currentRollup.kind = "object"
  /\ currentRollup.totalHours = 48 * 100
  /\ previousRollup.kind = "object"
  /\ previousRollup.totalHours = 0
  /\ comparison = NeutralComparison

\* p tenths of a percent is delta / previous x 100 rounded to one decimal.
IsPercentOf(p, delta, previous) ==
  IF previous = 0 THEN p = 0
  ELSE 2 * Distance(p * previous, 1000 * delta) <= previous

\* C17: with previous.totalHours nonzero, the result holds current - previous
\* for hours, earnings, daysWorked and averageHoursPerDay, and for hours and
\* earnings the percentage delta / previous x 100 (to one decimal), or 0 when
\* the previous value is 0.
ComparisonDeltas ==
  (/\ cmpPc = "done"
   /\ currentRollup.kind = "object"
   /\ previousRollup.kind = "object"
   /\ previousRollup.totalHours > 0) =>
    /\ ~comparison.raised
    /\ comparison.hoursChange = currentRollup.totalHours - previousRollup.totalHours
    /\ comparison.earningsChange = currentRollup.totalEarnings - previousRollup.totalEarnings
    /\ comparison.daysWorkedChange = currentRollup.daysWorked - previousRollup.daysWorked
    /\ comparison.averageHoursChange =
         currentRollup.averageHoursPerDay - previousRollup.averageHoursPerDay
    /\ IsPercentOf(comparison.hoursChangePercent, comparison.hoursChange,
                   previousRollup.totalHours)
    /\ IsPercentOf(comparison.earningsChangePercent, comparison.earningsChange,
                   previousRollup.totalEarnings)

\* C17 witness: 8 hours earning 200.00 after 24 hours earning nothing:
\* -16 hours, -66.7 %, +200.00 and 0 % of the previous earnings 0.
ComparisonDeltasWitness ==
  /\ cmpPc = "done"
  /\ currentRollup.kind = "object"
  /\ previousRollup.kind = "object"
  /\ previousRollup.totalHours = 24 * 100
  /\ previousRollup.totalEarnings = 0
  /\ comparison.hoursChange = 0 - 16 * 100
  /\ comparison.hoursChangePercent = 0 - 667
  /\ comparison.earningsChange = 200 * 100
  /\ comparison.earningsChangePercent = 0

\* A saveEntry call (with its updateEarningsRollups) has not returned.
SaveInFlight == \E i \in 1..Len(saves) : saves[i].pc \notin {"done", "failed"}

\* The rollup of the period of r over the entries now stored for its dates.
RollupOfStored(r) ==
  calculateRollup(loadEntriesForPeriod(storeEntries, parseLocalDate(r.periodStart),
                                       parseLocalDate(r.periodEnd)),
                  parseLocalDate(r.periodStart), parseLocalDate(r.periodEnd), 0)

\* C11: once every saveEntry / updateEarningsRollups call has completed, each
\* stored rollup document equals calculateRollup over the entries now stored
\* for its period, apart from lastUpdated.
RollupCacheConverged ==
  ~SaveInFlight =>
    \A r \in storeRollups :
      WithoutLastUpdated(r.rollup) = WithoutLastUpdated(RollupOfStored(r.rollup))

\* The value of save t is in the stored entry of its date.
IsStored(t) ==
  \E d \in storeEntries :
    /\ d.date = t.date
    /\ d.week = getWeekId(parseLocalDate(t.date))
    /\ IF t.field = "hours" THEN d.hours = t.value ELSE d.notes = t.value

\* C12: every saveEntry(date, field, value) started by the blur handler or by
\* the timer has, when it ends, written the value to the stored entry of
\* that date.
NoEditLost ==
  \A i \in 1..Len(saves) : saves[i].pc \in {"done", "failed"} => IsStored(saves[i])

\* C13: every entry document written by saveEntry holds the hourly rate
\* configured at the time of the write.
RateOfLastWrite ==
  [][\A d \in storeEntries' : d \notin storeEntries => d.hourlyRate = currentHourlyRate]_vars

\* C21: getPeriodId and getPeriodDates return an id and a {start, end} pair
\* for 'weekly', 'biweekly', 'monthly' and 'yearly', and for every other
\* periodType raise the invalid-period-type error, with no result.
PeriodDispatchTotal ==
  datePc = "period" =>
    IF periodType \in PeriodTypes
    THEN /\ DOMAIN periodDates = {"start", "end"}
         /\ periodDates.start <= periodDates.end
         /\ Len(periodId) \in 1..3
    ELSE /\ periodId = InvalidPeriodType
         /\ periodDates = InvalidPeriodType

\* C21 witness: the period type "Weekly" (capitalised) raises in both
\* functions.
PeriodDispatchTotalWitness ==
  /\ datePc = "period"
  /\ periodType = "Weekly"
  /\ periodId = InvalidPeriodType
  /\ periodDates = InvalidPeriodType

BoundaryOvertimeAddsUp ==
  chartPc = "done" =>
    /\ SumBuckets(byMonth, "overtimeHours") = SumBuckets(byWeek, "overtimeHours")
    /\ SumBuckets(byMonth, "overtimeEarnings") = SumBuckets(byWeek, "overtimeEarnings")

\* A list in the opposite order, and the totals of a rollup.
Reversed(q) == [i \in 1..Len(q) |-> q[Len(q) + 1 - i]]

TotalsOf(r) ==
  <<r.totalHours, r.regularHours, r.overtimeHours, r.totalEarnings, r.regularEarnings,
    r.overtimeEarnings, r.daysWorked, r.averageHoursPerDay,
    r.averageHoursPerDayIncludingNonWork>>

\* C28: the totals of calculateRollup are those of calculateRollup on the
\* same entries in another order (here the opposite order), also when the
\* entries of a week carry different nonzero hourly rates.
RollupOrderIndependent ==
  chartPc = "done" =>
    \A i \in 1..Len(byWeek) :
      TotalsOf(byWeek[i]) =
        TotalsOf(RollupOfPeriodAfter(Reversed(entries), "weekly", referenceDate, i - 1))

\* The entries of a list dated in month m.
EntriesDatedIn(es, m) == SelectSeq(es, LAMBDA e : getMonthId(parseLocalDate(e.date)) = m)

\* C29: every month in which an entry is dated has a bucket in
\* aggregateByMonth, and the hours of the bucket of month m are the sum of
\* the hours of the entries dated in m, also for a week that lies across
\* two months.
MonthBucketHoldsItsMonth ==
  chartPc = "done" =>
    /\ \A i \in 1..Len(rollup.entries) :
         \E j \in 1..Len(byMonth) :
           byMonth[j].monthId = getMonthId(parseLocalDate(rollup.entries[i].date))
    /\ \A j \in 1..Len(byMonth) :
         byMonth[j].hours =
           ToFixed2(SumHours(EntriesDatedIn(rollup.entries, byMonth[j].monthId)), 10)

\* C24: when two saveEntry calls for different fields of the same date (and
\* the same week path) have both completed, the stored entry of that date
\* holds the values of both.
PerFieldMutation ==
  \A i, j \in 1..Len(saves) :
    (/\ saves[i].pc = "done"
     /\ saves[j].pc = "done"
     /\ saves[i].date = saves[j].date
     /\ saves[i].weekId = saves[j].weekId
     /\ saves[i].field = "hours"
     /\ saves[j].field = "notes")
    => /\ DocAt(storeEntries, saves[i].weekId, saves[i].date).hours =
            ParseFloatOrZero(saves[i].value)
       /\ DocAt(storeEntries, saves[j].weekId, saves[j].date).notes = saves[j].value

\* C25: every stored entry document has the weekday name of its date field,
\* also when currentWeekStart was changed between the start of the save and
\* its write.
WeekdayOfDate ==
  \A d \in storeEntries : d.weekday = getWeekdayName(parseLocalDate(d.date))

\* An entry written by a save during which the week was changed: it lies
\* under the week selected when the save started, and has the weekday of its
\* date.
WeekdayOfDateWitness ==
  \E d \in storeEntries :
    /\ d.week # getWeekId(parseLocalDate(d.date))
    /\ d.weekday = getWeekdayName(parseLocalDate(d.date))
    /\ navClicks = 2

\* C26: every entry document in the store lies under the week of its date.
EntryUnderItsWeek ==
  \A d \in storeEntries : d.week = getWeekId(parseLocalDate(d.date))

\* The dates with a save whose write has completed.
WrittenDates(tasks) ==
  {tasks[i].date : i \in {k \in 1..Len(tasks) :
                            tasks[k].pc \in {"loadEntries", "setRollup", "reload", "done"}}}

\* C27: a step of loadWeek (a click, the arrival of the entries) or any other
\* step that sets weekEntries leaves the stored entries and rollups as they
\* are; an entry shown that is not stored is a placeholder with 0 hours; and
\* there is an entry document only for dates with a completed saveEntry write.
DisplayWritesNothing ==
  [][/\ (loads' # loads \/ renderedWeek' # renderedWeek
           \/ shownWeekEntries' # shownWeekEntries)
        => /\ storeEntries' = storeEntries
           /\ storeRollups' = storeRollups
     /\ shownWeekEntries' # shownWeekEntries
        => \A i \in 1..7 :
             \/ shownWeekEntries'[i] \in storeEntries'
             \/ /\ shownWeekEntries'[i].hours = 0
                /\ shownWeekEntries'[i].hourlyRate = Missing
     /\ \A d \in storeEntries' : d.date \in WrittenDates(saves')]_vars

\* A week with a stored entry has been loaded and shown: the stored entry and
\* six placeholders, and the store holds that one entry only.
DisplayWritesNothingWitness ==
  /\ navClicks >= 1
  /\ loads = {}
  /\ Cardinality(storeEntries) = 1
  /\ \E i \in 1..7 : shownWeekEntries[i] \in storeEntries
  /\ Cardinality({i \in 1..7 : shownWeekEntries[i] \notin storeEntries}) = 6

\* C30: when no loadWeek call is in flight, the table rendered and weekEntries
\* are those of the week of currentWeekStart.
ShowsSelectedWeek ==
  loads = {} =>
    /\ getWeekId(renderedWeek) = getWeekId(currentWeekStart)
    /\ \A i \in 1..7 :
         shownWeekEntries[i].date = formatDate(getWeekDates(currentWeekStart)[i])

====
